---- MODULE Spec2Model ----
(***************************************************************************)
(* Model of the CSV reading core of datafusion-csv                         *)
(* (src/src/physical_exec.rs): the batch stream reader CsvStream and the   *)
(* schema inferrer infer_schema / infer_column_type.                       *)
(*                                                                         *)
(* A file is a sequence of raw records as the csv crate's tokenizer        *)
(* delivers them: each has its fields (cell texts, sequences of one-       *)
(* character strings) and a flag telling whether its bytes are valid       *)
(* UTF-8.  A record is malformed when it is not valid UTF-8 or when its    *)
(* field count differs from the first record's (the csv reader is built    *)
(* with the default flexible = false).                                     *)
(*                                                                         *)
(* Specifications: Spec (open and pull a reader over a given schema),      *)
(* SpecInfer and SpecCaps (schema inference, on short and on long files),  *)
(* SpecScan (inference, then a scan with the inferred schema) and SpecUrl  *)
(* (make_url / parse_url of src/src/object_store_reader.rs).               *)
(***************************************************************************)
EXTENDS Integers, Sequences, FiniteSets, TLC

VARIABLES
    file,           \* bytes handed to the reader / inferrer, as raw records
    has_header,     \* CsvFormatOptions.has_header
    batch_size,     \* CsvOpener.batch_size
    projection,     \* CsvOpener.projection : Option<Vec<usize>>
    table_schema,   \* CsvOpener.schema (full file schema)
    pc,             \* "fetching" | "streaming" | "failed" | "infer" | "inferred"
                    \* | "make_url" | "parse_url" | "parsed"
    reader,         \* CsvStream.reader : position of the csv reader
    record_buffer,  \* CsvStream.record_buffer
    stream_schema,  \* CsvStream.schema (output schema)
    finished,       \* CsvStream.finished
    outputs,        \* what each poll_next returned, in pull order
    infer_max_rec,  \* CsvFormatOptions.schema_infer_max_rec : Option<usize>
    inferred,       \* result of infer_schema
    url_args,       \* arguments of make_url: scheme, bucket, path
    url,            \* a URL string: make_url's result, parse_url's argument
    parsed,         \* result of parse_url
    fetched         \* number of raw records of the file received from the
                    \* object store by CsvOpener::open

vars == <<file, has_header, batch_size, projection, table_schema, pc, reader,
          record_buffer, stream_schema, finished, outputs, infer_max_rec,
          inferred, url_args, url, parsed, fetched>>

\* the variables of the URL helpers
urlVars == <<url_args, url, parsed>>

\* the shape of the state: the options, the CsvStream fields and the
\* results observed
TypeOK ==
    /\ has_header \in BOOLEAN
    /\ batch_size \in Nat
    /\ projection.some \in BOOLEAN
    /\ pc \in {"fetching", "streaming", "failed", "infer", "inferred",
              "make_url", "parse_url", "parsed"}
    /\ reader.pos \in 1..(Len(file) + 1)
    /\ Len(record_buffer) <= batch_size
    /\ finished \in BOOLEAN
    /\ fetched \in 0..Len(file)
    /\ \A i \in 1..Len(outputs) : outputs[i].kind \in {"batch", "eos", "err"}
    /\ infer_max_rec.some \in BOOLEAN
    /\ inferred.status \in {"none", "ok", "err"}

(***************************************************************************)
(* Bounds of the model.                                                    *)
(***************************************************************************)
MaxRows == 3
MaxBatch == 2
MaxPulls == 5
MaxInferRows == 3
MaxInferRec == 2
MaxUrlPart == 3
MaxUrl == 5
MaxTail == 2

(***************************************************************************)
(* Option values.                                                          *)
(***************************************************************************)
None == [some |-> FALSE, v |-> <<>>]
Some(x) == [some |-> TRUE, v |-> <<x>>]
Unwrap(o) == o.v[1]

Min(a, b) == IF a <= b THEN a ELSE b

(***************************************************************************)
(* Text: a str is a sequence of one-character strings.                     *)
(***************************************************************************)
Digits == <<"0", "1", "2", "3", "4", "5", "6", "7", "8", "9">>
UpperAscii == <<"A", "B", "C", "D", "E", "F", "G", "H", "I", "J", "K", "L", "M",
                "N", "O", "P", "Q", "R", "S", "T", "U", "V", "W", "X", "Y", "Z">>
LowerAscii == <<"a", "b", "c", "d", "e", "f", "g", "h", "i", "j", "k", "l", "m",
                "n", "o", "p", "q", "r", "s", "t", "u", "v", "w", "x", "y", "z">>
WhiteSpace == {" ", "\t", "\n", "\r"}

IsDigit(c) == \E i \in 1..10 : Digits[i] = c
AllDigits(s) == \A i \in 1..Len(s) : IsDigit(s[i])

ToAsciiLower(c) ==
    IF \E i \in 1..26 : UpperAscii[i] = c
    THEN LowerAscii[CHOOSE i \in 1..26 : UpperAscii[i] = c]
    ELSE c

LowerStr(s) == [i \in 1..Len(s) |-> ToAsciiLower(s[i])]

\* str::eq_ignore_ascii_case
eq_ignore_ascii_case(a, b) == LowerStr(a) = LowerStr(b)

\* str::trim : strip leading and trailing whitespace
RECURSIVE TrimStart(_)
TrimStart(s) ==
    IF s # <<>> /\ Head(s) \in WhiteSpace THEN TrimStart(Tail(s)) ELSE s

RECURSIVE TrimEnd(_)
TrimEnd(s) ==
    IF s # <<>> /\ s[Len(s)] \in WhiteSpace
    THEN TrimEnd(SubSeq(s, 1, Len(s) - 1))
    ELSE s

trim(s) == TrimEnd(TrimStart(s))

\* str::contains(char)
contains(s, c) == \E i \in 1..Len(s) : s[i] = c

\* index of the first occurrence of a character of set cs in s, 0 when none
FirstIndex(s, cs) ==
    IF \E i \in 1..Len(s) : s[i] \in cs
    THEN CHOOSE i \in 1..Len(s) :
            s[i] \in cs /\ \A j \in 1..(i - 1) : s[j] \notin cs
    ELSE 0

\* a digit string without its leading zeros ("" for zero)
RECURSIVE StripLeadingZeros(_)
StripLeadingZeros(d) ==
    IF d # <<>> /\ Head(d) = "0" THEN StripLeadingZeros(Tail(d)) ELSE d

\* a digit string without its trailing zeros
RECURSIVE StripTrailingZeros(_)
StripTrailingZeros(d) ==
    IF d # <<>> /\ d[Len(d)] = "0"
    THEN StripTrailingZeros(SubSeq(d, 1, Len(d) - 1))
    ELSE d

DigitVal(c) == (CHOOSE i \in 1..10 : Digits[i] = c) - 1

\* a <= b for digit strings without leading zeros
RECURSIVE DigitsLeqSameLen(_, _)
DigitsLeqSameLen(a, b) ==
    IF a = <<>> THEN TRUE
    ELSE IF DigitVal(Head(a)) < DigitVal(Head(b)) THEN TRUE
    ELSE IF DigitVal(Head(a)) > DigitVal(Head(b)) THEN FALSE
    ELSE DigitsLeqSameLen(Tail(a), Tail(b))

DigitsLeq(a, b) ==
    \/ Len(a) < Len(b)
    \/ Len(a) = Len(b) /\ DigitsLeqSameLen(a, b)

\* value of a short digit string
RECURSIVE DigitsToNat(_)
DigitsToNat(d) ==
    IF d = <<>> THEN 0
    ELSE 10 * DigitsToNat(SubSeq(d, 1, Len(d) - 1)) + DigitVal(d[Len(d)])

\* magnitude of i64::MAX and of i64::MIN, as digit strings
I64MaxDigits == <<"9", "2", "2", "3", "3", "7", "2", "0", "3", "6", "8", "5", "4",
                  "7", "7", "5", "8", "0", "7">>
I64MinDigits == <<"9", "2", "2", "3", "3", "7", "2", "0", "3", "6", "8", "5", "4",
                  "7", "7", "5", "8", "0", "8">>

ParseFail == [ok |-> FALSE, v |-> <<>>]

\* the text without its sign, and whether the sign is a minus
Unsigned(s) == IF s # <<>> /\ Head(s) \in {"+", "-"} THEN Tail(s) ELSE s
IsNegative(s) == s # <<>> /\ Head(s) = "-"

(***************************************************************************)
(* str::parse::<i64>: an optional single sign, then one or more digits,    *)
(* within the 64-bit range.  The value is kept as <<negative, magnitude    *)
(* digits without leading zeros>>.                                         *)
(***************************************************************************)
I64OfMagnitude(neg, mag) ==
    IF neg /\ ~DigitsLeq(mag, I64MinDigits) THEN ParseFail
    ELSE IF ~neg /\ ~DigitsLeq(mag, I64MaxDigits) THEN ParseFail
    ELSE [ok |-> TRUE, v |-> <<neg /\ mag # <<>>, mag>>]

I64OfBody(neg, body) ==
    IF body = <<>> \/ ~AllDigits(body) THEN ParseFail
    ELSE I64OfMagnitude(neg, StripLeadingZeros(body))

parse_i64(s) == I64OfBody(IsNegative(s), Unsigned(s))

(***************************************************************************)
(* str::parse::<f64>: Sign? ( inf | infinity | nan | Number ), with        *)
(* Number = (Digit+ | Digit+ . Digit* | Digit* . Digit+) (e Sign? Digit+)? *)
(* and letters matched case-insensitively.  The value is kept as the       *)
(* exact decimal <<kind, negative, mantissa digits, exponent of ten>>;     *)
(* rounding to binary is not modelled.                                     *)
(***************************************************************************)
\* the part of s before position p (all of s when p = 0), and the part after
Before(s, p) == IF p = 0 THEN s ELSE SubSeq(s, 1, p - 1)
After(s, p) == IF p = 0 THEN <<>> ELSE SubSeq(s, p + 1, Len(s))

\* the decimal with significant digits sig: all is the digit string before
\* its trailing zeros were stripped, nfrac the number of fraction digits
F64OfDigits(neg, all, sig, nfrac, exp) ==
    [ok |-> TRUE,
     v |-> <<"num", neg /\ sig # <<>>, sig,
             IF sig = <<>> THEN 0 ELSE exp - nfrac + (Len(all) - Len(sig))>>]

F64OfAllDigits(neg, all, nfrac, exp) ==
    F64OfDigits(neg, all, StripTrailingZeros(all), nfrac, exp)

\* ip . fp e exp, with hasExp telling whether an exponent is written and
\* edig its digits
F64OfParts(neg, ip, fp, hasExp, eneg, edig) ==
    IF /\ AllDigits(ip) /\ AllDigits(fp) /\ Len(ip) + Len(fp) >= 1
       /\ (hasExp => (edig # <<>> /\ AllDigits(edig)))
    THEN F64OfAllDigits(neg, StripLeadingZeros(ip \o fp), Len(fp),
                        IF ~hasExp THEN 0
                        ELSE IF eneg THEN 0 - DigitsToNat(edig)
                        ELSE DigitsToNat(edig))
    ELSE ParseFail

F64OfMantissaExponent(neg, mant, dpos, hasExp, exps) ==
    F64OfParts(neg, Before(mant, dpos), After(mant, dpos), hasExp,
               IsNegative(exps), Unsigned(exps))

F64OfNumber(neg, low, epos) ==
    F64OfMantissaExponent(neg, Before(low, epos),
                          FirstIndex(Before(low, epos), {"."}),
                          epos # 0, After(low, epos))

F64OfBody(neg, low) ==
    IF low \in {<<"i", "n", "f">>, <<"i", "n", "f", "i", "n", "i", "t", "y">>}
    THEN [ok |-> TRUE, v |-> <<"inf", neg, <<>>, 0>>]
    ELSE IF low = <<"n", "a", "n">>
    THEN [ok |-> TRUE, v |-> <<"nan", FALSE, <<>>, 0>>]
    ELSE F64OfNumber(neg, low, FirstIndex(low, {"e"}))

parse_f64(s) == F64OfBody(IsNegative(s), LowerStr(Unsigned(s)))

StrTrue == <<"t", "r", "u", "e">>
StrFalse == <<"f", "a", "l", "s", "e">>

\* the boolean parser ignoring ASCII case
parse_bool_IgnoreCase(s) ==
    IF LowerStr(s) = StrTrue THEN [ok |-> TRUE, v |-> <<TRUE>>]
    ELSE IF LowerStr(s) = StrFalse THEN [ok |-> TRUE, v |-> <<FALSE>>]
    ELSE ParseFail

\* str::parse::<bool>: exactly "true" or "false"
parse_bool(s) ==
    IF s = StrTrue THEN [ok |-> TRUE, v |-> <<TRUE>>]
    ELSE IF s = StrFalse THEN [ok |-> TRUE, v |-> <<FALSE>>]
    ELSE ParseFail

(***************************************************************************)
(* The csv crate's reader, as physical_exec.rs builds and drives it:       *)
(* ReaderBuilder::new().delimiter(..).has_headers(..).from_reader(cursor). *)
(* Its state: pos, the index of the next raw record; ffc, the field count  *)
(* of the first record read (-1 before); hdr, whether the header record    *)
(* has been captured, with hrec/hutf8 its fields and validity; first,      *)
(* whether a record has been yielded.                                      *)
(***************************************************************************)
Row(fields) == [utf8 |-> TRUE, fields |-> fields]
BadUtf8Row(fields) == [utf8 |-> FALSE, fields |-> fields]

NewCsvReader ==
    [pos |-> 1, ffc |-> -1, hdr |-> FALSE, hrec |-> <<>>, hutf8 |-> TRUE,
     first |-> FALSE]

\* Reader::read_byte_record_impl: the next raw record, or end of input; a
\* record whose field count differs from the first record's is an error
\* (UnequalLengths), and it is consumed all the same.
CsvReadRaw(raw, st) ==
    [res |-> IF st.ffc # -1 /\ Len(raw.fields) # st.ffc THEN "err" ELSE "ok",
     rec |-> raw.fields, utf8 |-> raw.utf8,
     st |-> [st EXCEPT !.pos = @ + 1,
                       !.ffc = IF @ = -1 THEN Len(raw.fields) ELSE @]]

CsvReadImpl(f, st) ==
    IF st.pos > Len(f)
    THEN [res |-> "eof", rec |-> <<>>, utf8 |-> TRUE, st |-> st]
    ELSE CsvReadRaw(f[st.pos], st)

\* Reader::read_byte_record, once r has been read in reader state st: the
\* first record read is captured as the header record; with has_headers it
\* is never yielded and the next one is read.
CsvAfterRead(f, hh, st, r) ==
    IF ~st.hdr
    THEN IF hh
         THEN CsvReadImpl(f, [r.st EXCEPT !.first = TRUE, !.hdr = TRUE,
                                          !.hrec = r.rec, !.hutf8 = r.utf8])
         ELSE [r EXCEPT !.st = [r.st EXCEPT !.first = TRUE, !.hdr = TRUE,
                                            !.hrec = r.rec, !.hutf8 = r.utf8]]
    ELSE [r EXCEPT !.st = [r.st EXCEPT !.first = TRUE]]

\* Reader::read_byte_record
CsvReadByteRecord(f, hh, st) ==
    IF ~hh /\ ~st.first /\ st.hdr
    THEN [res |-> IF st.hrec # <<>> THEN "ok" ELSE "eof",
          rec |-> st.hrec, utf8 |-> st.hutf8,
          st |-> [st EXCEPT !.first = TRUE]]
    ELSE CsvAfterRead(f, hh, st, CsvReadImpl(f, st))

\* StringRecord::read on top of read_byte_record: a record that is not
\* valid UTF-8 is an error.
CsvValidate(r) ==
    IF r.res = "ok" /\ ~r.utf8
    THEN [res |-> "err", rec |-> <<>>, st |-> r.st]
    ELSE [res |-> r.res, rec |-> IF r.res = "ok" THEN r.rec ELSE <<>>,
          st |-> r.st]

\* reader.records().next():
\* res "ok" = Some(Ok(rec)), "err" = Some(Err(_)), "eof" = None.
CsvNextRecord(f, hh, st) == CsvValidate(CsvReadByteRecord(f, hh, st))

\* reader.headers(): forces the first record to be read; at end of input the
\* header record is empty; a header that is not valid UTF-8 is an error.
CsvHeadersOf(st) == [ok |-> st.hutf8, rec |-> st.hrec, st |-> st]

CsvCaptureHeaders(r) ==
    CsvHeadersOf([r.st EXCEPT !.hdr = TRUE, !.hrec = r.rec, !.hutf8 = r.utf8])

CsvHeaders(f, st) ==
    IF st.hdr THEN CsvHeadersOf(st) ELSE CsvCaptureHeaders(CsvReadImpl(f, st))

\* StringRecord::get(i), i counted from 0
record_get(record, i) ==
    IF i < Len(record) THEN Some(record[i + 1]) ELSE None

(***************************************************************************)
(* Schemas, arrays and batches.                                            *)
(***************************************************************************)
Field(name, data_type) ==
    [name |-> name, data_type |-> data_type, nullable |-> TRUE]

\* Schema::field(i), i counted from 0
SchemaField(schema, i) == schema[i + 1]

NullCell == [null |-> TRUE, v |-> <<>>]
ValueCell(v) == [null |-> FALSE, v |-> v]

FromParse(p) == IF p.ok THEN ValueCell(p.v) ELSE NullCell

(***************************************************************************)
(* CsvStream: the batch stream reader.                                     *)
(***************************************************************************)
\* the array type build_array produces for a declared type
ArrayType(dt) == IF dt \in {"Int64", "Float64", "Boolean"} THEN dt ELSE "Utf8"

\* one element of the array of a column declared dt, from Option<&str> v
ConvertCell(dt, v) ==
    IF ~v.some THEN NullCell
    ELSE IF dt = "Int64" THEN FromParse(parse_i64(Unwrap(v)))
    ELSE IF dt = "Float64" THEN FromParse(parse_f64(Unwrap(v)))
    ELSE IF dt = "Boolean" THEN FromParse(parse_bool(Unwrap(v)))
    ELSE ValueCell(Unwrap(v))

\* a failed parse replaced by the type's default value
DefaultOnFailure(dt, cell) ==
    IF ~cell.null THEN cell
    ELSE IF dt = "Int64" THEN ValueCell(<<FALSE, <<>>>>)
    ELSE IF dt = "Float64" THEN ValueCell(<<"num", FALSE, <<>>, 0>>)
    ELSE ValueCell(<<FALSE>>)

\* build_array with a failed parse giving the type's default value
build_array_DefaultOnFailure(field, data) ==
    [data_type |-> ArrayType(field.data_type),
     cells |-> [r \in 1..Len(data) |->
                  IF data[r].some
                  THEN DefaultOnFailure(field.data_type,
                                        ConvertCell(field.data_type, data[r]))
                  ELSE NullCell]]

\* CsvStream::build_array: one cell per record; an absent value is null, a
\* value the column's parser rejects is null.
build_array(field, data) ==
    [data_type |-> ArrayType(field.data_type),
     cells |-> [r \in 1..Len(data) |-> ConvertCell(field.data_type, data[r])]]

\* RecordBatch::try_new(schema, columns): one column per field, of the
\* field's type, all of one length.
RecordBatchTryNew(schema, columns) ==
    IF /\ Len(schema) = Len(columns)
       /\ \A k \in 1..Len(columns) :
            /\ columns[k].data_type = schema[k].data_type
            /\ Len(columns[k].cells) = Len(columns[1].cells)
    THEN [ok |-> TRUE,
          batch |-> [schema |-> schema, columns |-> columns,
                     num_rows |-> IF columns = <<>> THEN 0
                                  ELSE Len(columns[1].cells)]]
    ELSE [ok |-> FALSE, batch |-> <<>>]

\* the indices of the columns to include (counted from 0)
ColumnIndices(proj, schema) ==
    IF proj.some THEN Unwrap(proj) ELSE [k \in 1..Len(schema) |-> k - 1]

\* the values of column idx (counted from 0) of the records
ColumnData(records, idx) ==
    [r \in 1..Len(records) |-> record_get(records[r], idx)]

\* BuildColumns taking the values at the output position instead of the
\* projected index
BuildColumns_PositionalData(records, schema, column_indices) ==
    [k \in 1..Len(column_indices) |->
        build_array(SchemaField(schema, column_indices[k]),
                    ColumnData(records, k - 1))]

\* the arrays of the columns column_indices
BuildColumns(records, schema, column_indices) ==
    [k \in 1..Len(column_indices) |->
        build_array(SchemaField(schema, column_indices[k]),
                    ColumnData(records, column_indices[k]))]

\* records_to_batch, once column_indices is resolved
BatchOfColumns(records, schema, out_schema, column_indices) ==
    IF records = <<>> THEN [ok |-> FALSE, batch |-> <<>>]
    ELSE IF column_indices = <<>>
    THEN [ok |-> TRUE,
          batch |-> [schema |-> <<>>, columns |-> <<>>,
                     num_rows |-> Len(records)]]
    ELSE RecordBatchTryNew(out_schema,
                           BuildColumns(records, schema, column_indices))

\* records_to_batch without the empty-projection case
records_to_batch_NoEmptyCase(records, proj, schema, out_schema) ==
    IF records = <<>> THEN [ok |-> FALSE, batch |-> <<>>]
    ELSE RecordBatchTryNew(out_schema,
                           BuildColumns(records, schema,
                                        ColumnIndices(proj, schema)))

\* CsvStream::records_to_batch
records_to_batch(records, proj, schema, out_schema) ==
    BatchOfColumns(records, schema, out_schema, ColumnIndices(proj, schema))

\* the declared schema listing the projected fields in schema order
projected_schema_SchemaOrder(proj, file_schema) ==
    IF proj.some
    THEN SelectSeq(file_schema,
                   LAMBDA fld : \E j \in 1..Len(Unwrap(proj)) :
                                  SchemaField(file_schema, Unwrap(proj)[j]) = fld)
    ELSE file_schema

\* CsvExec::projected_schema, the result of ExecutionPlan::schema: the
\* fields of file_schema at the projection's indices, in projection order
projected_schema(proj, file_schema) ==
    IF proj.some
    THEN [k \in 1..Len(Unwrap(proj)) |->
            SchemaField(file_schema, Unwrap(proj)[k])]
    ELSE file_schema

\* CsvStream::new: the output schema (projected or full)
OutputSchema(proj, schema) ==
    IF proj.some
    THEN [k \in 1..Len(Unwrap(proj)) |-> SchemaField(schema, Unwrap(proj)[k])]
    ELSE schema

\* the loop of read_next_batch: up to n more records into buf.
\* status "full": n records read; "eof": the source is exhausted (finished
\* is set); "err": a record failed to parse (the function returns at once).
RECURSIVE ReadRecords(_, _, _, _, _)
\* the loop body putting the record at the front of the buffer
ReadStep_PushFront(f, hh, r, buf, n) ==
    IF r.res = "ok"
    THEN ReadRecords(f, hh, r.st, <<r.rec>> \o buf, n - 1)
    ELSE IF r.res = "err"
    THEN [status |-> "err", st |-> r.st, buf |-> buf]
    ELSE [status |-> "eof", st |-> r.st, buf |-> buf]

ReadStep(f, hh, r, buf, n) ==
    IF r.res = "ok"
    THEN ReadRecords(f, hh, r.st, Append(buf, r.rec), n - 1)
    ELSE IF r.res = "err"
    THEN [status |-> "err", st |-> r.st, buf |-> buf]
    ELSE [status |-> "eof", st |-> r.st, buf |-> buf]

ReadRecords(f, hh, st, buf, n) ==
    IF n = 0 THEN [status |-> "full", st |-> st, buf |-> buf]
    ELSE ReadStep(f, hh, CsvNextRecord(f, hh, st), buf, n)

\* the end of read_next_batch, once the records l.buf are buffered and b is
\* what records_to_batch makes of them
BatchResult(l, b) ==
    IF l.buf = <<>>
    THEN [kind |-> "eos", batch |-> <<>>, st |-> l.st, buf |-> l.buf,
          fin |-> l.status = "eof"]
    ELSE IF b.ok
    THEN [kind |-> "batch", batch |-> b.batch, st |-> l.st, buf |-> l.buf,
          fin |-> l.status = "eof"]
    ELSE [kind |-> "err", batch |-> <<>>, st |-> l.st, buf |-> l.buf,
          fin |-> l.status = "eof"]

\* read_next_batch setting finished when a record fails to parse
AfterReadLoop_ErrorFinishes(l, proj, schema, out_schema) ==
    IF l.status = "err"
    THEN [kind |-> "err", batch |-> <<>>, st |-> l.st, buf |-> l.buf,
          fin |-> TRUE]
    ELSE BatchResult(l, records_to_batch(l.buf, proj, schema, out_schema))

\* read_next_batch after its read loop ended as l
AfterReadLoop(l, proj, schema, out_schema) ==
    IF l.status = "err"
    THEN [kind |-> "err", batch |-> <<>>, st |-> l.st, buf |-> l.buf,
          fin |-> FALSE]
    ELSE BatchResult(l, records_to_batch(l.buf, proj, schema, out_schema))

\* read_next_batch without record_buffer.clear()
read_next_batch_NoClear(f, hh, bs, proj, schema, out_schema, st, buf, fin) ==
    IF fin
    THEN [kind |-> "eos", batch |-> <<>>, st |-> st, buf |-> buf, fin |-> fin]
    ELSE AfterReadLoop(ReadRecords(f, hh, st, buf, bs), proj, schema,
                       out_schema)

\* read_next_batch reading at least one record whatever the batch size
read_next_batch_AtLeastOne(f, hh, bs, proj, schema, out_schema, st, buf, fin) ==
    IF fin
    THEN [kind |-> "eos", batch |-> <<>>, st |-> st, buf |-> buf, fin |-> fin]
    ELSE AfterReadLoop(ReadRecords(f, hh, st, <<>>, IF bs = 0 THEN 1 ELSE bs),
                       proj, schema, out_schema)

\* read_next_batch looping over 0..=batch_size
read_next_batch_InclusiveRange(f, hh, bs, proj, schema, out_schema, st, buf, fin) ==
    IF fin
    THEN [kind |-> "eos", batch |-> <<>>, st |-> st, buf |-> buf, fin |-> fin]
    ELSE AfterReadLoop(ReadRecords(f, hh, st, <<>>, bs + 1), proj, schema,
                       out_schema)

\* read_next_batch clearing the finished flag when it reports it
read_next_batch_OneShotFinished(f, hh, bs, proj, schema, out_schema, st, buf, fin) ==
    IF fin
    THEN [kind |-> "eos", batch |-> <<>>, st |-> st, buf |-> buf,
          fin |-> FALSE]
    ELSE AfterReadLoop(ReadRecords(f, hh, st, <<>>, bs), proj, schema,
                       out_schema)

\* CsvStream::read_next_batch followed by poll_next's mapping of its result:
\* kind "batch" = Ready(Some(Ok(batch))), "eos" = Ready(None),
\* "err" = Ready(Some(Err(_))).
read_next_batch(f, hh, bs, proj, schema, out_schema, st, buf, fin) ==
    IF fin
    THEN [kind |-> "eos", batch |-> <<>>, st |-> st, buf |-> buf, fin |-> fin]
    ELSE AfterReadLoop(ReadRecords(f, hh, st, <<>>, bs), proj, schema,
                       out_schema)

(***************************************************************************)
(* Inputs of the reader: files, schemas and projections.                   *)
(***************************************************************************)
RowA == Row(<<<<"3">>, <<"3", ".", "5">>, StrTrue>>)
RowB == Row(<<<<"a", "b", "c">>, <<>>, <<"T", "R", "U", "E">>>>)
RowC == Row(<<<<" ", "3">>, <<"-", "7">>, StrFalse>>)
RowShort == Row(<<<<"7">>>>)
RowBad == BadUtf8Row(<<<<"3">>, <<"3", ".", "5">>, StrTrue>>)

ReaderRows == {RowA, RowB, RowC, RowShort, RowBad}

ReaderFiles == UNION {[1..n -> ReaderRows] : n \in 0..MaxRows}

SchemaOf(t1, t2, t3) ==
    <<Field(<<"a">>, t1), Field(<<"b">>, t2), Field(<<"c">>, t3)>>

ReaderSchemas ==
    {SchemaOf("Utf8", "Utf8", "Utf8"),
     SchemaOf("Int64", "Float64", "Boolean"),
     SchemaOf("Float64", "Boolean", "Int64"),
     SchemaOf("Boolean", "Int64", "Float64")}

ReaderProjections == {None, Some(<<>>), Some(<<1>>), Some(<<2, 0>>)}

NoSchema == <<>>
NoUrlArgs == None
NotParsed == [ok |-> FALSE, scheme |-> None, path |-> <<>>]

\* no URL helper is in use
UrlIdle == url_args = NoUrlArgs /\ url = <<>> /\ parsed = NotParsed
NotInferred == [status |-> "none", schema |-> <<>>]

(***************************************************************************)
(* The reader's state machine.                                             *)
(***************************************************************************)
Init ==
    /\ file \in ReaderFiles
    /\ has_header \in BOOLEAN
    /\ batch_size \in 0..MaxBatch
    /\ projection \in ReaderProjections
    /\ table_schema \in ReaderSchemas
    /\ pc = "fetching"
    /\ reader = NewCsvReader
    /\ record_buffer = <<>>
    /\ stream_schema = NoSchema
    /\ finished = FALSE
    /\ outputs = <<>>
    /\ infer_max_rec = None
    /\ inferred = NotInferred
    /\ UrlIdle
    /\ fetched = 0

\* CsvOpener::open suspended in get_result.bytes().await: one more piece of
\* the content arrives from the object store.
Fetch ==
    /\ pc = "fetching"
    /\ fetched < Len(file)
    /\ fetched' = fetched + 1
    /\ UNCHANGED <<file, has_header, batch_size, projection, table_schema, pc,
                   reader, record_buffer, stream_schema, finished, outputs,
                   infer_max_rec, inferred>>
    /\ UNCHANGED urlVars

\* the bytes CsvStream::new is given: what has been received
Bytes == SubSeq(file, 1, fetched)

\* CsvOpener::open building the reader without waiting for the whole content
Open_BeforeComplete ==
    /\ pc = "fetching"
    /\ pc' = "streaming"
    /\ reader' = NewCsvReader
    /\ record_buffer' = <<>>
    /\ stream_schema' = OutputSchema(projection, table_schema)
    /\ finished' = FALSE
    /\ UNCHANGED <<file, has_header, batch_size, projection, table_schema,
                   outputs, infer_max_rec, inferred>>
    /\ UNCHANGED urlVars
    /\ UNCHANGED fetched

\* CsvOpener::open, the fetch succeeds: bytes().await returns once the whole
\* content is obtained, then CsvStream::new builds the reader over it.
Open ==
    /\ pc = "fetching"
    /\ fetched = Len(file)
    /\ pc' = "streaming"
    /\ reader' = NewCsvReader
    /\ record_buffer' = <<>>
    /\ stream_schema' = OutputSchema(projection, table_schema)
    /\ finished' = FALSE
    /\ UNCHANGED <<file, has_header, batch_size, projection, table_schema,
                   outputs, infer_max_rec, inferred>>
    /\ UNCHANGED urlVars
    /\ UNCHANGED fetched

\* CsvOpener::open, the object store fails: no reader is built.
OpenFail ==
    /\ pc = "fetching"
    /\ pc' = "failed"
    /\ UNCHANGED <<file, has_header, batch_size, projection, table_schema,
                   reader, record_buffer, stream_schema, finished, outputs,
                   infer_max_rec, inferred>>
    /\ UNCHANGED urlVars
    /\ UNCHANGED fetched

\* CsvStream::poll_next: one pull, run to completion.  The entry added to
\* outputs holds what the pull returned (kind, batch) and, for the record,
\* the reader positions before and after it, the number of records it left
\* in the buffer and the finished flag after it.
PullResult(r) ==
    /\ reader' = r.st
    /\ record_buffer' = r.buf
    /\ finished' = r.fin
    /\ outputs' = Append(outputs,
                         [kind |-> r.kind, batch |-> r.batch,
                          from |-> reader.pos, to |-> r.st.pos,
                          nbuf |-> Len(r.buf), fin |-> r.fin])

Pull ==
    /\ pc = "streaming"
    /\ Len(outputs) < MaxPulls
    /\ PullResult(read_next_batch(Bytes, has_header, batch_size, projection,
                                  table_schema, stream_schema, reader,
                                  record_buffer, finished))
    /\ UNCHANGED <<file, has_header, batch_size, projection, table_schema, pc,
                   stream_schema, infer_max_rec, inferred>>
    /\ UNCHANGED urlVars
    /\ UNCHANGED fetched

Next == Fetch \/ Open \/ OpenFail \/ Pull

Spec == Init /\ [][Next]_vars

(***************************************************************************)
(* Schema inference.                                                       *)
(***************************************************************************)
DefaultInferMaxRec == 1000
TypeSampleLimit == 100

\* decimal digits of a natural number
RECURSIVE NatToDigits(_)
NatToDigits(n) ==
    IF n < 10 THEN <<Digits[n + 1]>>
    ELSE NatToDigits(n \div 10) \o <<Digits[(n % 10) + 1]>>

\* format!("column_{}", i)
ColumnName(i) == <<"c", "o", "l", "u", "m", "n", "_">> \o NatToDigits(i)

\* the flags of infer_column_type after one more trimmed non-empty value
Classify(acc, value) ==
    IF eq_ignore_ascii_case(value, StrTrue)
       \/ eq_ignore_ascii_case(value, StrFalse)
    THEN [acc EXCEPT !.total_values = @ + 1, !.has_bool = TRUE]
    ELSE IF parse_f64(value).ok
    THEN IF contains(value, ".")
         THEN [acc EXCEPT !.total_values = @ + 1, !.has_float = TRUE]
         ELSE [acc EXCEPT !.total_values = @ + 1, !.has_int = TRUE]
    ELSE [acc EXCEPT !.total_values = @ + 1]

\* the loop body classifying the value as it stands in the record
ScanValue_NoTrim(acc, got) ==
    IF ~got.some \/ Unwrap(got) = <<>> THEN acc
    ELSE Classify(acc, Unwrap(got))

\* the loop body of infer_column_type on one record's value
ScanValue(acc, got) ==
    IF ~got.some \/ trim(Unwrap(got)) = <<>> THEN acc
    ELSE Classify(acc, trim(Unwrap(got)))

\* the loop of infer_column_type over records[i..n], as two runs: the
\* second starts from the flags the first one left (reading the counter
\* first makes those flags be computed before the second run starts)
RECURSIVE ScanColumn(_, _, _, _, _)
ScanColumn(records, col_idx, i, n, acc) ==
    IF acc.total_values < 0 \/ i > n THEN acc
    ELSE IF i = n THEN ScanValue(acc, record_get(records[i], col_idx))
    ELSE ScanColumn(records, col_idx, ((i + n) \div 2) + 1, n,
                    ScanColumn(records, col_idx, i, (i + n) \div 2, acc))

\* the decision with Int64 tried before Float64
DecideType_IntBeforeFloat(acc) ==
    IF acc.total_values = 0 THEN "Utf8"
    ELSE IF acc.has_bool /\ ~acc.has_int /\ ~acc.has_float THEN "Boolean"
    ELSE IF acc.has_int THEN "Int64"
    ELSE IF acc.has_float THEN "Float64"
    ELSE "Utf8"

\* the decision at the end of infer_column_type
DecideType(acc) ==
    IF acc.total_values = 0 THEN "Utf8"
    ELSE IF acc.has_bool /\ ~acc.has_int /\ ~acc.has_float THEN "Boolean"
    ELSE IF acc.has_float THEN "Float64"
    ELSE IF acc.has_int THEN "Int64"
    ELSE "Utf8"

\* infer_column_type looking at every sampled record
infer_column_type_NoSampleLimit(records, col_idx) ==
    DecideType(ScanColumn(records, col_idx, 1, Len(records),
                          [has_float |-> FALSE, has_int |-> FALSE,
                           has_bool |-> FALSE, total_values |-> 0]))

\* infer_column_type(records, col_idx)
infer_column_type(records, col_idx) ==
    DecideType(ScanColumn(records, col_idx, 1,
                          Min(Len(records), TypeSampleLimit),
                          [has_float |-> FALSE, has_int |-> FALSE,
                           has_bool |-> FALSE, total_values |-> 0]))

\* the sampling loop of infer_schema over the next n records of the reader:
\* a record that parses is pushed, a failed one is skipped, and the loop
\* ends at end of input (done) or after max_records records (the record
\* read with i >= max_records is dropped).  The n records are read as two
\* runs, the second continuing from the reader state the first one left.
RECURSIVE SampleRecords(_, _, _, _)
\* the loop body with a failed record ending the sampling
SampleOne_ErrorEndsSampling(r) ==
    [st |-> r.st,
     recs |-> IF r.res = "ok" THEN <<r.rec>> ELSE <<>>,
     done |-> r.res # "ok"]

\* the loop body on the result r of reader.records().next()
SampleOne(r) ==
    [st |-> r.st,
     recs |-> IF r.res = "ok" THEN <<r.rec>> ELSE <<>>,
     done |-> r.res = "eof"]

SampleJoin(a, b) == [st |-> b.st, recs |-> a.recs \o b.recs, done |-> b.done]

SampleRest(f, hh, a, n) ==
    IF a.done THEN a ELSE SampleJoin(a, SampleRecords(f, hh, a.st, n))

SampleRecords(f, hh, st, n) ==
    IF n = 0 THEN [st |-> st, recs |-> <<>>, done |-> FALSE]
    ELSE IF n = 1 THEN SampleOne(CsvNextRecord(f, hh, st))
    ELSE SampleRest(f, hh, SampleRecords(f, hh, st, n \div 2), n - (n \div 2))

\* the generated names with the first record left for the sampling loop
GeneratedNames_FirstRecordSampled(r) ==
    [ok |-> r.res = "ok",
     names |-> [k \in 1..Len(r.rec) |-> ColumnName(k - 1)],
     st |-> [r.st EXCEPT !.pos = 1]]

\* the generated names, when the first record r was read
GeneratedNames(r) ==
    [ok |-> r.res = "ok",
     names |-> [k \in 1..Len(r.rec) |-> ColumnName(k - 1)],
     st |-> r.st]

\* the generated names counted from 1
GeneratedNames_OneBased(r) ==
    [ok |-> r.res = "ok",
     names |-> [k \in 1..Len(r.rec) |-> ColumnName(k)],
     st |-> r.st]

\* the names of the header record h
HeaderNames(h) == [ok |-> h.ok, names |-> h.rec, st |-> h.st]

\* the column names with the generated ones counted from 1
InferHeaders_OneBased(f, hh) ==
    IF hh THEN HeaderNames(CsvHeaders(f, NewCsvReader))
    ELSE GeneratedNames_OneBased(CsvNextRecord(f, FALSE, NewCsvReader))

\* the column names: the header record verbatim, or column_<i> for each
\* field of the first record
InferHeaders(f, hh) ==
    IF hh THEN HeaderNames(CsvHeaders(f, NewCsvReader))
    ELSE GeneratedNames(CsvNextRecord(f, FALSE, NewCsvReader))

\* options.schema_infer_max_rec.unwrap_or(1000)
MaxRecords(max_rec) ==
    IF max_rec.some THEN Unwrap(max_rec) ELSE DefaultInferMaxRec

\* sample_records of infer_schema: the records read after the column names
\* were obtained
SampledRecords(f, hh, max_rec) ==
    SampleRecords(f, hh, InferHeaders(f, hh).st, MaxRecords(max_rec)).recs

\* the schema of the names h.names, typed from sample_records
SchemaOfSample(h, sample_records) ==
    IF ~h.ok THEN [status |-> "err", schema |-> <<>>]
    ELSE [status |-> "ok",
          schema |-> [k \in 1..Len(h.names) |->
                        Field(h.names[k],
                              infer_column_type(sample_records, k - 1))]]

\* infer_schema(bytes, options)
infer_schema(f, hh, max_rec) ==
    SchemaOfSample(InferHeaders(f, hh), SampledRecords(f, hh, max_rec))

(***************************************************************************)
(* Inputs of the inferrer, and its state machine.                          *)
(***************************************************************************)
InferCells ==
    {<<>>, StrTrue, <<"F", "a", "l", "s", "e">>, <<"3">>, <<"3", ".", "5">>,
     <<"a", "b", "c">>, <<" ", "7", " ">>}

InferRows ==
    {Row(<<c>>) : c \in InferCells}
    \cup {Row(<<<<"x">>, <<"y">>>>), Row(<<<<"3">>, StrTrue>>),
          BadUtf8Row(<<<<"3">>>>)}

InferFiles == UNION {[1..n -> InferRows] : n \in 0..MaxInferRows}

InferMaxRecs == {None} \cup {Some(n) : n \in 0..MaxInferRec}

InitInfer ==
    /\ file \in InferFiles
    /\ has_header \in BOOLEAN
    /\ infer_max_rec \in InferMaxRecs
    /\ pc = "infer"
    /\ inferred = NotInferred
    /\ batch_size = 0
    /\ projection = None
    /\ table_schema = NoSchema
    /\ reader = NewCsvReader
    /\ record_buffer = <<>>
    /\ stream_schema = NoSchema
    /\ finished = FALSE
    /\ outputs = <<>>
    /\ UrlIdle
    /\ fetched = 0

\* CsvFormat::infer_schema calling physical_exec::infer_schema on the bytes
Infer ==
    /\ pc = "infer"
    /\ pc' = "inferred"
    /\ inferred' = infer_schema(file, has_header, infer_max_rec)
    /\ UNCHANGED <<file, has_header, batch_size, projection, table_schema,
                   reader, record_buffer, stream_schema, finished, outputs,
                   infer_max_rec>>
    /\ UNCHANGED urlVars
    /\ UNCHANGED fetched

NextInfer == Infer

SpecInfer == InitInfer /\ [][NextInfer]_vars

(***************************************************************************)
(* Inference on long files: a first record, a run of equal records as long *)
(* as one of the two sampling caps or one shorter, and a short tail.       *)
(***************************************************************************)
Fill(n, row) == [i \in 1..n |-> row]

CapFillLengths ==
    {0, TypeSampleLimit - 1, TypeSampleLimit,
     DefaultInferMaxRec - 1, DefaultInferMaxRec}

CapFillRows == {Row(<<StrTrue>>), Row(<<<<>>>>), BadUtf8Row(<<StrTrue>>)}

CapTailRows ==
    {Row(<<<<"3">>>>), Row(<<<<"3", ".", "5">>>>), BadUtf8Row(<<<<"3">>>>)}

CapTails == UNION {[1..n -> CapTailRows] : n \in 0..MaxTail}

CapFiles ==
    {<<Row(<<<<"h">>>>)>> \o Fill(n, row) \o tail :
        n \in CapFillLengths, row \in CapFillRows, tail \in CapTails}

InitCaps ==
    /\ file \in CapFiles
    /\ has_header \in BOOLEAN
    /\ infer_max_rec \in InferMaxRecs
    /\ pc = "infer"
    /\ inferred = NotInferred
    /\ batch_size = 0
    /\ projection = None
    /\ table_schema = NoSchema
    /\ reader = NewCsvReader
    /\ record_buffer = <<>>
    /\ stream_schema = NoSchema
    /\ finished = FALSE
    /\ outputs = <<>>
    /\ UrlIdle
    /\ fetched = 0

SpecCaps == InitCaps /\ [][NextInfer]_vars

(***************************************************************************)
(* A table scan: the schema is inferred from the file, the scan is planned *)
(* with the inferred schema as the file schema, and the file is read.      *)
(***************************************************************************)
ScanCells ==
    {StrTrue, <<"T", "R", "U", "E">>, <<"F", "a", "l", "s", "e">>,
     <<" ", "t", "r", "u", "e">>, <<"3">>, <<" ", "3">>,
     <<"3", ".", "5", " ">>}

ScanRows ==
    {Row(<<c>>) : c \in ScanCells}
    \cup {Row(<<<<"T", "R", "U", "E">>, <<"3">>>>), BadUtf8Row(<<StrTrue>>)}

ScanFiles == UNION {[1..n -> ScanRows] : n \in 0..MaxRows}

InitScan ==
    /\ file \in ScanFiles
    /\ has_header \in BOOLEAN
    /\ batch_size \in 1..MaxBatch
    /\ infer_max_rec = None
    /\ projection = None
    /\ table_schema = NoSchema
    /\ pc = "infer"
    /\ inferred = NotInferred
    /\ reader = NewCsvReader
    /\ record_buffer = <<>>
    /\ stream_schema = NoSchema
    /\ finished = FALSE
    /\ outputs = <<>>
    /\ UrlIdle
    /\ fetched = 0

\* ListingTableConfig::infer_schema then ListingTable::try_new and
\* CsvExec::execute: the inferred schema becomes the file schema the opener
\* is built with.
Plan ==
    /\ pc = "inferred"
    /\ inferred.status = "ok"
    /\ pc' = "fetching"
    /\ table_schema' = inferred.schema
    /\ UNCHANGED <<file, has_header, batch_size, projection, reader,
                   record_buffer, stream_schema, finished, outputs,
                   infer_max_rec, inferred>>
    /\ UNCHANGED urlVars
    /\ UNCHANGED fetched

NextScan == Infer \/ Plan \/ Fetch \/ Open \/ OpenFail \/ Pull

SpecScan == InitScan /\ [][NextScan]_vars

(***************************************************************************)
(* The URL helpers of src/src/object_store_reader.rs.                      *)
(***************************************************************************)
SchemeSep == <<":", "/", "/">>

\* sub occurs in s at position p
OccursAt(s, sub, p) ==
    /\ p >= 1
    /\ p + Len(sub) - 1 <= Len(s)
    /\ SubSeq(s, p, p + Len(sub) - 1) = sub

\* str::contains(&str)
contains_str(s, sub) == \E p \in 1..(Len(s) + 1) : OccursAt(s, sub, p)

\* position of the first occurrence of sub in s, 0 when none
FirstOccurrence(s, sub) ==
    IF contains_str(s, sub)
    THEN CHOOSE p \in 1..(Len(s) + 1) :
            OccursAt(s, sub, p) /\ \A q \in 1..(p - 1) : ~OccursAt(s, sub, q)
    ELSE 0

\* position of the last occurrence of sub in s, 0 when none
LastOccurrence(s, sub) ==
    IF contains_str(s, sub)
    THEN CHOOSE p \in 1..(Len(s) + 1) :
            OccursAt(s, sub, p)
            /\ \A q \in (p + 1)..(Len(s) + 1) : ~OccursAt(s, sub, q)
    ELSE 0

\* the pieces of s around the occurrence of sub at p (s alone when p = 0)
SplitAt(s, sub, p) ==
    IF p = 0 THEN <<s>>
    ELSE <<SubSeq(s, 1, p - 1), SubSeq(s, p + Len(sub), Len(s))>>

\* str::splitn(2, sub): s split at the first occurrence of sub
splitn2(s, sub) == SplitAt(s, sub, FirstOccurrence(s, sub))

\* str::trim_start_matches(c)
RECURSIVE trim_start_matches(_, _)
trim_start_matches(s, c) ==
    IF s # <<>> /\ Head(s) = c THEN trim_start_matches(Tail(s), c) ELSE s

\* make_url(scheme, bucket, path)
make_url(scheme, bucket, path) ==
    IF scheme = <<>> THEN path
    ELSE scheme \o SchemeSep \o bucket \o <<"/">>
         \o trim_start_matches(path, "/")

\* the result of parse_url from the pieces of its split
UrlOfParts(u, parts) ==
    IF Len(parts) = 2
    THEN [ok |-> TRUE, scheme |-> Some(parts[1]), path |-> parts[2]]
    ELSE [ok |-> FALSE, scheme |-> None, path |-> u]

\* parse_url splitting at the last "://"
parse_url_SplitAtLast(u) ==
    IF contains_str(u, SchemeSep)
    THEN UrlOfParts(u, SplitAt(u, SchemeSep, LastOccurrence(u, SchemeSep)))
    ELSE [ok |-> TRUE, scheme |-> None, path |-> u]

\* parse_url(url)
parse_url(u) ==
    IF contains_str(u, SchemeSep)
    THEN UrlOfParts(u, splitn2(u, SchemeSep))
    ELSE [ok |-> TRUE, scheme |-> None, path |-> u]

\* the strings over UrlChars of length at most n
UrlChars == {"s", ":", "/"}
Strings(n) == UNION {[1..k -> UrlChars] : k \in 0..n}

UrlArgs ==
    {[scheme |-> sc, bucket |-> b, path |-> pa] :
        sc \in Strings(MaxUrlPart), b \in Strings(1), pa \in Strings(MaxUrlPart)}

InitUrl ==
    /\ \/ /\ pc = "make_url"
          /\ url_args \in {Some(a) : a \in UrlArgs}
          /\ url = <<>>
       \/ /\ pc = "parse_url"
          /\ url_args = NoUrlArgs
          /\ url \in Strings(MaxUrl)
    /\ parsed = NotParsed
    /\ file = <<>>
    /\ has_header = FALSE
    /\ batch_size = 0
    /\ projection = None
    /\ table_schema = NoSchema
    /\ reader = NewCsvReader
    /\ record_buffer = <<>>
    /\ stream_schema = NoSchema
    /\ finished = FALSE
    /\ outputs = <<>>
    /\ infer_max_rec = None
    /\ inferred = NotInferred
    /\ fetched = 0

\* a call of make_url
MakeUrl ==
    /\ pc = "make_url"
    /\ pc' = "parse_url"
    /\ url' = make_url(Unwrap(url_args).scheme, Unwrap(url_args).bucket,
                       Unwrap(url_args).path)
    /\ UNCHANGED <<file, has_header, batch_size, projection, table_schema,
                   reader, record_buffer, stream_schema, finished, outputs,
                   infer_max_rec, inferred, url_args, parsed>>
    /\ UNCHANGED fetched

\* a call of parse_url
ParseUrl ==
    /\ pc = "parse_url"
    /\ pc' = "parsed"
    /\ parsed' = parse_url(url)
    /\ UNCHANGED <<file, has_header, batch_size, projection, table_schema,
                   reader, record_buffer, stream_schema, finished, outputs,
                   infer_max_rec, inferred, url_args, url>>
    /\ UNCHANGED fetched

NextUrl == MakeUrl \/ ParseUrl

SpecUrl == InitUrl /\ [][NextUrl]_vars

(***************************************************************************)
(* Vocabulary of the properties.                                           *)
(***************************************************************************)
\* index of the first data record of the file
DataStart == IF has_header THEN 2 ELSE 1

\* R: the number of data records of the file
NumDataRows == IF Len(file) >= DataStart THEN Len(file) - DataStart + 1 ELSE 0

\* raw record i cannot be tokenized into a record of the file
Malformed(i) ==
    \/ ~file[i].utf8
    \/ Len(file[i].fields) # Len(file[1].fields)

NoMalformedData == \A i \in DataStart..Len(file) : ~Malformed(i)

CeilDiv(a, b) == (a + b - 1) \div b

LastOut == outputs[Len(outputs)]

RECURSIVE SumRows(_)
SumRows(outs) ==
    IF outs = <<>> THEN 0
    ELSE (IF Head(outs).kind = "batch" THEN Head(outs).batch.num_rows ELSE 0)
         + SumRows(Tail(outs))

\* what n pulls return on the same file and options read without projection
RECURSIVE UnprojectedRun(_, _, _, _)
UnprojectedRun(st, buf, fin, n) ==
    IF n = 0 THEN <<>>
    ELSE LET r == read_next_batch(file, has_header, batch_size, None,
                                  table_schema, table_schema, st, buf, fin)
         IN  <<r>> \o UnprojectedRun(r.st, r.buf, r.fin, n - 1)

\* the parser of a typed column
TypeParse(dt, text) ==
    IF dt = "Int64" THEN parse_i64(text)
    ELSE IF dt = "Float64" THEN parse_f64(text)
    ELSE parse_bool(text)

\* a text the parser of the type accepts
GoodText(dt) ==
    IF dt = "Int64" THEN <<"1">>
    ELSE IF dt = "Float64" THEN <<"1", ".", "5">>
    ELSE StrTrue

\* the last pull consumed records and none of them was malformed
LastPullReadCleanly ==
    /\ pc = "streaming"
    /\ outputs # <<>>
    /\ LastOut.from < LastOut.to
    /\ \A i \in LastOut.from..(LastOut.to - 1) : i >= DataStart => ~Malformed(i)

\* cell r of output column k of the last pull is typed and its text is
\* rejected by the parser of its type
BadTypedCell(k, r) ==
    LET idx == ColumnIndices(projection, table_schema)[k]
        f == SchemaField(table_schema, idx)
        got == record_get(record_buffer[r], idx)
    IN  /\ f.data_type \in {"Int64", "Float64", "Boolean"}
        /\ got.some
        /\ ~TypeParse(f.data_type, Unwrap(got)).ok

(***************************************************************************)
(* C1 -- Batch-size law: for a file of R data records, none malformed,     *)
(* and a batch size B >= 1, pulling until end-of-stream yields exactly     *)
(* ceil(R / B) batches (none when R = 0), all before the end-of-stream;    *)
(* every batch but the last has B rows and the last has R mod B rows, or   *)
(* B when B divides R.                                                     *)
(***************************************************************************)
C1_BatchSizeLaw ==
    (/\ pc = "streaming"
     /\ batch_size >= 1
     /\ NoMalformedData
     /\ outputs # <<>>
     /\ LastOut.kind = "eos")
    => LET R == NumDataRows
           B == batch_size
           n == CeilDiv(R, B)
       IN  /\ \A i \in 1..Len(outputs) :
                outputs[i].kind = IF i <= n THEN "batch" ELSE "eos"
           /\ \A i \in 1..Min(n, Len(outputs)) :
                outputs[i].batch.num_rows =
                    IF i < n THEN B ELSE IF R % B = 0 THEN B ELSE R % B

C1_Witness ==
    /\ pc = "streaming"
    /\ batch_size = 2
    /\ NoMalformedData
    /\ NumDataRows = 3
    /\ Len(outputs) = 3
    /\ outputs[1].kind = "batch"
    /\ outputs[2].kind = "batch"
    /\ outputs[2].batch.num_rows = 1
    /\ LastOut.kind = "eos"

(***************************************************************************)
(* C2 -- A record that cannot be tokenized aborts the whole stream: once   *)
(* a pull has returned a parse error, no later pull on the same reader     *)
(* yields a batch.                                                         *)
(***************************************************************************)
C2_ErrorAbortsStream ==
    \A i \in 1..Len(outputs) : \A j \in 1..Len(outputs) :
        (i < j /\ outputs[i].kind = "err") => outputs[j].kind # "batch"

(***************************************************************************)
(* C3 -- End-of-stream is an idempotent terminal state: after a pull that  *)
(* signalled end-of-stream every later pull signals end-of-stream again    *)
(* (never a batch, never an error), and the finished flag, once set, is    *)
(* never reset.                                                            *)
(***************************************************************************)
C3_EndOfStreamTerminal ==
    [][/\ finished => finished'
       /\ (outputs # <<>> /\ LastOut.kind = "eos" /\ outputs' # outputs)
          => outputs'[Len(outputs')].kind = "eos"]_vars

C3_Witness ==
    /\ pc = "streaming"
    /\ finished
    /\ Len(outputs) >= 3
    /\ outputs[1].kind = "batch"
    /\ outputs[Len(outputs) - 1].kind = "eos"
    /\ LastOut.kind = "eos"

(***************************************************************************)
(* C4 -- Projection law: with a non-empty projection P of valid field      *)
(* indices, every batch produced has exactly |P| columns, its k-th column  *)
(* carries the field (name and type) of schema field P[k], and its cells   *)
(* equal those of column P[k] of the batch that a read of the same file    *)
(* without projection produces at the same pull.                           *)
(***************************************************************************)
C4_ProjectionLaw ==
    (pc = "streaming" /\ projection.some /\ Unwrap(projection) # <<>>)
    => LET P == Unwrap(projection)
           full == UnprojectedRun(NewCsvReader, <<>>, FALSE, Len(outputs))
       IN  \A i \in 1..Len(outputs) :
             outputs[i].kind = "batch"
             => LET b == outputs[i].batch
                IN  /\ full[i].kind = "batch"
                    /\ Len(b.columns) = Len(P)
                    /\ Len(b.schema) = Len(P)
                    /\ b.num_rows = full[i].batch.num_rows
                    /\ \A k \in 1..Len(P) :
                         /\ b.schema[k] = SchemaField(table_schema, P[k])
                         /\ b.columns[k] = full[i].batch.columns[P[k] + 1]

C4_Witness ==
    /\ pc = "streaming"
    /\ projection = Some(<<2, 0>>)
    /\ outputs # <<>>
    /\ LastOut.kind = "batch"
    /\ LastOut.batch.num_rows = 2
    /\ LastOut.batch.schema[1].data_type = "Boolean"
    /\ LastOut.batch.schema[2].data_type = "Int64"
    /\ ~LastOut.batch.columns[1].cells[1].null
    /\ ~LastOut.batch.columns[2].cells[1].null

(***************************************************************************)
(* C5 -- With an empty projection every batch has zero columns and a row   *)
(* count equal to the number of records buffered for its pull, so that on  *)
(* a file of N data records, none malformed, read to end-of-stream with a  *)
(* batch size >= 1, the row counts of the batches sum to N.                *)
(***************************************************************************)
C5_EmptyProjectionCounts ==
    (pc = "streaming" /\ projection = Some(<<>>))
    => /\ \A i \in 1..Len(outputs) :
            outputs[i].kind = "batch"
            => /\ outputs[i].batch.columns = <<>>
               /\ outputs[i].batch.schema = <<>>
               /\ outputs[i].batch.num_rows = outputs[i].nbuf
               /\ outputs[i].nbuf >= 1
       /\ (outputs # <<>> /\ LastOut.kind = "batch")
          => LastOut.batch.num_rows = Len(record_buffer)
       /\ (/\ outputs # <<>>
           /\ LastOut.kind = "eos"
           /\ batch_size >= 1
           /\ NoMalformedData)
          => SumRows(outputs) = NumDataRows

C5_Witness ==
    /\ pc = "streaming"
    /\ projection = Some(<<>>)
    /\ batch_size = 2
    /\ NoMalformedData
    /\ NumDataRows = 3
    /\ outputs # <<>>
    /\ LastOut.kind = "eos"
    /\ SumRows(outputs) = 3

(***************************************************************************)
(* C6 -- Null-degradation law: in a column declared Int64, Float64 or      *)
(* Boolean a cell whose text fails to parse as that type becomes null, in  *)
(* that cell only: the pull still yields a batch, the row stays in it, and *)
(* the row count and every other cell are what they are when the cell      *)
(* holds a text of its type instead.                                       *)
(***************************************************************************)
C6_NullDegradation ==
    LastPullReadCleanly
    => \A k \in 1..Len(ColumnIndices(projection, table_schema)) :
         \A r \in 1..Len(record_buffer) :
           BadTypedCell(k, r)
           => LET idx == ColumnIndices(projection, table_schema)[k]
                  dt == SchemaField(table_schema, idx).data_type
                  fixed == [record_buffer EXCEPT ![r][idx + 1] = GoodText(dt)]
                  b2 == records_to_batch(fixed, projection, table_schema,
                                         stream_schema).batch
              IN  /\ LastOut.kind = "batch"
                  /\ LastOut.batch.num_rows = Len(record_buffer)
                  /\ LastOut.batch.columns[k].cells[r] = NullCell
                  /\ b2.num_rows = LastOut.batch.num_rows
                  /\ ~b2.columns[k].cells[r].null
                  /\ \A k2 \in 1..Len(b2.columns) :
                       \A r2 \in 1..Len(record_buffer) :
                         (k2 # k \/ r2 # r)
                         => b2.columns[k2].cells[r2]
                              = LastOut.batch.columns[k2].cells[r2]

C6_Witness ==
    /\ LastPullReadCleanly
    /\ Len(record_buffer) = 2
    /\ \E k \in 1..Len(ColumnIndices(projection, table_schema)) :
         /\ BadTypedCell(k, 2)
         /\ ~BadTypedCell(k, 1)
         /\ LastOut.kind = "batch"
         /\ LastOut.batch.columns[k].cells[2].null
         /\ ~LastOut.batch.columns[k].cells[1].null

(***************************************************************************)
(* Vocabulary of the inference properties.                                 *)
(***************************************************************************)
\* the non-empty trimmed values of column col (counted from 0) among the
\* first 100 sampled records
InspectedValues(col) ==
    LET sample == SampledRecords(file, has_header, infer_max_rec)
        n == Min(Len(sample), TypeSampleLimit)
    IN  {trim(sample[i][col + 1]) :
            i \in {j \in 1..n : col < Len(sample[j])}} \ {<<>>}

IsBoolLiteral(v) == LowerStr(v) \in {StrTrue, StrFalse}
IsNumber(v) == parse_f64(v).ok
IsFloatLike(v) == ~IsBoolLiteral(v) /\ IsNumber(v) /\ contains(v, ".")
IsIntLike(v) == ~IsBoolLiteral(v) /\ IsNumber(v) /\ ~contains(v, ".")

\* the type the priority order gives a column
PriorityType(col) ==
    LET vals == InspectedValues(col)
    IN  IF vals = {} THEN "Utf8"
        ELSE IF /\ \E v \in vals : IsBoolLiteral(v)
                /\ ~\E v \in vals : IsIntLike(v)
                /\ ~\E v \in vals : IsFloatLike(v)
        THEN "Boolean"
        ELSE IF \E v \in vals : IsFloatLike(v) THEN "Float64"
        ELSE IF \E v \in vals : IsIntLike(v) THEN "Int64"
        ELSE "Utf8"

InferredOk == pc = "inferred" /\ inferred.status = "ok"

(***************************************************************************)
(* C7 -- Type-inference priority: the type of each column is decided from  *)
(* its inspected non-empty values, in strict order: none -> Utf8; a        *)
(* boolean literal and no integer-like and no float-like value -> Boolean; *)
(* else a value with a decimal point that parses as a float -> Float64;    *)
(* else an integer-like value (one that parses as a number and has no      *)
(* decimal point) -> Int64; else Utf8.                                     *)
(***************************************************************************)
C7_InferencePriority ==
    InferredOk
    => \A k \in 1..Len(inferred.schema) :
         inferred.schema[k].data_type = PriorityType(k - 1)

C7_Witness ==
    /\ InferredOk
    /\ Len(inferred.schema) = 1
    /\ <<"3">> \in InspectedValues(0)
    /\ <<"3", ".", "5">> \in InspectedValues(0)
    /\ inferred.schema[1].data_type = "Float64"

(***************************************************************************)
(* C8 -- A column whose inspected values include one that is neither a     *)
(* boolean literal nor parseable as a number infers to Utf8, whatever its  *)
(* other inspected values are.                                             *)
(***************************************************************************)
C8_NonNumericInfersUtf8 ==
    InferredOk
    => \A k \in 1..Len(inferred.schema) :
         (\E v \in InspectedValues(k - 1) : ~IsBoolLiteral(v) /\ ~IsNumber(v))
         => inferred.schema[k].data_type = "Utf8"

(***************************************************************************)
(* C9 -- Inferred field names and count: with a declared header the schema *)
(* has one field per header token, named by the tokens verbatim and in     *)
(* order; without one it has one field per field of the first record,      *)
(* named column_0 .. column_{n-1} in order; every field is nullable.       *)
(***************************************************************************)
C9_FieldNames ==
    InferredOk
    => LET tokens == IF file = <<>> THEN <<>> ELSE file[1].fields
       IN  /\ Len(inferred.schema) = Len(tokens)
           /\ \A k \in 1..Len(inferred.schema) :
                /\ inferred.schema[k].nullable
                /\ inferred.schema[k].name =
                     IF has_header THEN tokens[k]
                     ELSE <<"c", "o", "l", "u", "m", "n", "_", Digits[k]>>

C9_Witness ==
    /\ InferredOk
    /\ ~has_header
    /\ Len(file) >= 1
    /\ Len(file[1].fields) = 2
    /\ Len(inferred.schema) = 2
    /\ inferred.schema[2].name = <<"c", "o", "l", "u", "m", "n", "_", "1">>

(***************************************************************************)
(* C10 -- Inference on an input with no rows fails in both header modes:   *)
(* it never returns a schema for such input.                               *)
(***************************************************************************)
C10_EmptyInputFails ==
    (pc = "inferred" /\ file = <<>>) => inferred.status = "err"

(***************************************************************************)
(* Vocabulary of the sampling properties.                                  *)
(***************************************************************************)
\* position in the file of the last record the sampling loop can take
PoolEnd == Min(Len(file), 1 + MaxRecords(infer_max_rec))

\* the records of the sampling pool that parse: valid UTF-8 and as many
\* fields as the first record of the file
WellFormed(rec) == rec.utf8 /\ Len(rec.fields) = Len(file[1].fields)

GoodPool == SelectSeq(SubSeq(file, 2, PoolEnd), WellFormed)

\* the file with the records of the pool that fail to parse taken out
WithoutFailedSamples ==
    IF file = <<>> THEN file
    ELSE <<file[1]>> \o GoodPool \o SubSeq(file, PoolEnd + 1, Len(file))

\* the column names can be obtained: the header record, or the first record
\* without a header, is read
NamesReadable ==
    IF file = <<>> THEN has_header ELSE file[1].utf8

(***************************************************************************)
(* C11 -- During inference a sampled record that fails to parse is         *)
(* swallowed: it never makes inference fail and adds nothing to a column's *)
(* type decision; the schema is the one inferred from the same sample      *)
(* without the failed records.                                             *)
(***************************************************************************)
C11_FailedSampleSwallowed ==
    (pc = "inferred" /\ NamesReadable)
    => /\ inferred.status = "ok"
       /\ inferred = infer_schema(WithoutFailedSamples, has_header,
                                  Some(Len(GoodPool)))

C11_Witness ==
    /\ InferredOk
    /\ Len(file) = 3
    /\ ~WellFormed(file[2])
    /\ WellFormed(file[3])
    /\ PoolEnd = 3
    /\ Len(inferred.schema) = 1
    /\ inferred.schema[1].data_type = "Int64"

(***************************************************************************)
(* C12 -- The output schema the scan operator declares before any pull     *)
(* (the full schema without a projection, else the schema fields at the    *)
(* projection's indices in projection order) has the same fields in the    *)
(* same order as the schema of every batch the reader emits.               *)
(***************************************************************************)
C12_DeclaredSchemaIsBatchSchema ==
    \A i \in 1..Len(outputs) :
        outputs[i].kind = "batch"
        => outputs[i].batch.schema = projected_schema(projection, table_schema)

C12_Witness ==
    /\ projection = Some(<<2, 0>>)
    /\ Len(outputs) >= 1
    /\ outputs[1].kind = "batch"
    /\ outputs[1].batch.schema = <<table_schema[3], table_schema[1]>>
    /\ projected_schema(projection, table_schema)
         = <<table_schema[3], table_schema[1]>>

(***************************************************************************)
(* Vocabulary of the URL properties.                                       *)
(***************************************************************************)
\* the path without its leading slashes
RECURSIVE NoLeadingSlash(_)
NoLeadingSlash(pa) ==
    IF pa # <<>> /\ pa[1] = "/" THEN NoLeadingSlash(SubSeq(pa, 2, Len(pa)))
    ELSE pa

HasSep(u) == \E p \in 1..Len(u) : OccursAt(u, <<":", "/", "/">>, p)

\* parse_url(make_url(s, bucket, path)) = (Some(s), bucket/path)
RoundTrip(a) ==
    /\ parsed.ok
    /\ parsed.scheme = Some(a.scheme)
    /\ parsed.path = a.bucket \o <<"/">> \o NoLeadingSlash(a.path)

\* the parts of the claim that do not depend on the scheme's content
UrlHelperFacts ==
    /\ (pc \in {"parse_url", "parsed"} /\ url_args.some
        /\ Unwrap(url_args).scheme = <<>>)
       => url = Unwrap(url_args).path
    /\ pc = "parsed"
       => /\ parsed.ok
          /\ ~HasSep(url) => (parsed.scheme = None /\ parsed.path = url)
          /\ HasSep(url)
             => /\ parsed.scheme.some
                /\ url = Unwrap(parsed.scheme) \o <<":", "/", "/">>
                           \o parsed.path
                /\ ~HasSep(Unwrap(parsed.scheme) \o <<":", "/">>)

(***************************************************************************)
(* C13 (as stated) -- URL helpers round-trip: for a non-empty scheme s,    *)
(* parse_url(make_url(s, bucket, path)) is (Some(s), bucket + "/" + path   *)
(* without its leading slashes); for an empty scheme make_url returns path *)
(* unchanged; parse_url of a string without "://" is (None, the string);   *)
(* parse_url splits at the first "://" and is Ok for every input.          *)
(***************************************************************************)
C13_UrlRoundTrip_AnyScheme ==
    /\ UrlHelperFacts
    /\ (pc = "parsed" /\ url_args.some /\ Unwrap(url_args).scheme # <<>>)
       => RoundTrip(Unwrap(url_args))

(***************************************************************************)
(* C13 -- URL helpers round-trip, amended: for a non-empty scheme s that   *)
(* does not contain "://", parse_url(make_url(s, bucket, path)) is         *)
(* (Some(s), bucket + "/" + path without its leading slashes); for an      *)
(* empty scheme make_url returns path unchanged; parse_url of a string     *)
(* without "://" is (None, the string); parse_url splits at the first      *)
(* "://" and is Ok for every input.                                        *)
(***************************************************************************)
C13_UrlRoundTrip ==
    /\ UrlHelperFacts
    /\ (pc = "parsed" /\ url_args.some /\ Unwrap(url_args).scheme # <<>>
        /\ ~HasSep(Unwrap(url_args).scheme))
       => RoundTrip(Unwrap(url_args))

C13_Witness ==
    /\ pc = "parsed"
    /\ url_args = Some([scheme |-> <<"s">>, bucket |-> <<"s">>,
                        path |-> <<"/", "/", "s">>])
    /\ url = <<"s", ":", "/", "/", "s", "/", "s">>
    /\ parsed = [ok |-> TRUE, scheme |-> Some(<<"s">>),
                 path |-> <<"s", "/", "s">>]

(***************************************************************************)
(* Vocabulary of the scan properties.                                      *)
(***************************************************************************)
\* the last pull returned a batch; record_buffer holds its records
LastIsBatch == pc = "streaming" /\ outputs # <<>> /\ LastOut.kind = "batch"

\* the text of field k (counted from 1) of buffered record r is present
HasText(r, k) == k <= Len(record_buffer[r])

\* a boolean literal in some letter case that is not exactly true or false
IsCaseVariant(v) == IsBoolLiteral(v) /\ v \notin {StrTrue, StrFalse}

(***************************************************************************)
(* C14 -- Boolean cells are converted case-sensitively while inference     *)
(* detects booleans case-insensitively: in a column declared Boolean a     *)
(* cell is non-null exactly when its text is "true" or "false"; a column   *)
(* whose inspected values are all boolean literals in any letter case is   *)
(* inferred Boolean, so a column of case variants such as "TRUE"/"False"   *)
(* is inferred Boolean and reads back as nulls.                            *)
(***************************************************************************)
C14_BooleanCaseMismatch ==
    /\ LastIsBatch
       => \A k \in 1..Len(table_schema) :
            table_schema[k].data_type = "Boolean"
            => \A r \in 1..Len(record_buffer) :
                 ~LastOut.batch.columns[k].cells[r].null
                 <=> (HasText(r, k)
                      /\ record_buffer[r][k] \in {StrTrue, StrFalse})
    /\ pc \in {"fetching", "streaming", "failed"}
       => \A k \in 1..Len(table_schema) :
            (/\ InspectedValues(k - 1) # {}
             /\ \A v \in InspectedValues(k - 1) : IsBoolLiteral(v))
            => table_schema[k].data_type = "Boolean"

C14_Witness ==
    /\ LastIsBatch
    /\ has_header
    /\ Len(file) = 3
    /\ \A v \in InspectedValues(0) : IsCaseVariant(v)
    /\ Len(table_schema) = 1
    /\ table_schema[1].data_type = "Boolean"
    /\ Len(record_buffer) = 2
    /\ IsCaseVariant(record_buffer[1][1])
    /\ IsCaseVariant(record_buffer[2][1])
    /\ LastOut.batch.columns[1].cells[1].null
    /\ LastOut.batch.columns[1].cells[2].null

(***************************************************************************)
(* C15 -- In a Utf8 column, and in a column whose declared type is none of *)
(* Utf8, Int64, Float64, Boolean, each present non-empty cell passes       *)
(* through unchanged, and absent cells (the record has no field at the     *)
(* column's index) and empty cells become null.                            *)
(***************************************************************************)
C15_Utf8PassThroughEmptyNull ==
    LastIsBatch
    => \A k \in 1..Len(LastOut.batch.columns) :
         LET idx == ColumnIndices(projection, table_schema)[k]
         IN  table_schema[idx + 1].data_type \notin {"Int64", "Float64", "Boolean"}
             => \A r \in 1..Len(record_buffer) :
                  LET cell == LastOut.batch.columns[k].cells[r]
                  IN  IF idx < Len(record_buffer[r])
                         /\ record_buffer[r][idx + 1] # <<>>
                      THEN ~cell.null /\ cell.v = record_buffer[r][idx + 1]
                      ELSE cell.null

(***************************************************************************)
(* Vocabulary of the sampling caps.                                        *)
(***************************************************************************)
\* the cap on the records read by the sampling loop
PoolCap == IF infer_max_rec.some THEN infer_max_rec.v[1] ELSE 1000

\* the positions in the file of the records the sampling loop can take: at
\* most PoolCap records after the first one, failed ones included
PoolPositions == [i \in 1..Min(Len(file) - 1, PoolCap) |-> i + 1]

\* those of them that hold a well-formed record
WellFormedAt(p) == WellFormed(file[p])
GoodPositions == SelectSeq(PoolPositions, WellFormedAt)

\* position of the last record within both caps: a type is decided from
\* the first 100 well-formed records of the pool
LastWithinCaps ==
    IF Len(GoodPositions) >= 100 THEN GoodPositions[100]
    ELSE Min(Len(file), 1 + PoolCap)

\* the file without the records beyond the caps
WithinCaps == SubSeq(file, 1, LastWithinCaps)

(***************************************************************************)
(* C16 -- Two independent caps bound inference: only records among the     *)
(* first schema_infer_max_rec (1000 when unset) records read after the     *)
(* header enter the sample, a record that fails to parse counting toward   *)
(* that cap, and a column's type is decided from the first 100 records of  *)
(* the sample only; the records beyond those bounds never change the       *)
(* inferred schema, and with schema_infer_max_rec = 0 every column is      *)
(* Utf8.                                                                   *)
(***************************************************************************)
C16_SamplingCaps ==
    InferredOk
    => /\ inferred = infer_schema(WithinCaps, has_header, infer_max_rec)
       /\ PoolCap = 0
          => \A k \in 1..Len(inferred.schema) :
               inferred.schema[k].data_type = "Utf8"

\* 100 well-formed records decide Boolean although the 101st holds a number
C16_Witness ==
    /\ InferredOk
    /\ infer_max_rec = None
    /\ Len(file) = 102
    /\ \A i \in 2..101 : file[i] = [fields |-> <<StrTrue>>, utf8 |-> TRUE]
    /\ file[102] = [fields |-> <<<<"3">>>>, utf8 |-> TRUE]
    /\ Len(WithinCaps) = 101
    /\ inferred.schema[1].data_type = "Boolean"

C18_BatchShape ==
    \A i \in 1..Len(outputs) :
        outputs[i].kind = "batch"
        => /\ outputs[i].batch.num_rows >= 1
           /\ outputs[i].batch.num_rows <= batch_size
           /\ outputs[i].batch.num_rows = outputs[i].nbuf
           /\ ColumnIndices(projection, table_schema) # <<>>
              => /\ Len(outputs[i].batch.columns)
                      = Len(ColumnIndices(projection, table_schema))
                 /\ \A k \in 1..Len(outputs[i].batch.columns) :
                      Len(outputs[i].batch.columns[k].cells) = outputs[i].nbuf

\* two records of one field read under a schema of three fields
C18_Witness ==
    /\ LastIsBatch
    /\ Len(record_buffer) = 2
    /\ Len(record_buffer[1]) = 1
    /\ Len(table_schema) = 3
    /\ projection = Some(<<2, 0>>)
    /\ Len(LastOut.batch.columns) = 2
    /\ Len(LastOut.batch.columns[1].cells) = 2
    /\ LastOut.batch.columns[1].cells[1].null
    /\ LastOut.batch.num_rows = 2

(***************************************************************************)
(* Vocabulary of the headerless properties.                                *)
(***************************************************************************)
\* the file with the values of its first record blanked
FirstRecordBlanked ==
    [file EXCEPT ![1] = [utf8 |-> TRUE,
                         fields |-> [k \in 1..Len(file[1].fields) |-> <<>>]]]

\* a headerless file whose schema has been inferred
HeaderlessInferred ==
    /\ ~has_header
    /\ pc # "infer"
    /\ inferred.status = "ok"

(***************************************************************************)
(* C19 -- Without a declared header, inference reads the first record only *)
(* to count the columns and keeps it out of the type sample, while the     *)
(* batch reader emits that record as a data row: the values of the first   *)
(* record never influence an inferred type, a single-row headerless input  *)
(* infers every column as Utf8, and the first row of the first batch is    *)
(* the first record.                                                       *)
(***************************************************************************)
C19_HeaderlessFirstRecord ==
    HeaderlessInferred
    => /\ Len(inferred.schema) = Len(file[1].fields)
       /\ inferred = infer_schema(FirstRecordBlanked, has_header,
                                  infer_max_rec)
       /\ Len(file) = 1
          => \A k \in 1..Len(inferred.schema) :
               inferred.schema[k].data_type = "Utf8"
       /\ outputs # <<>>
          => /\ outputs[1].kind \in {"batch", "err"}
             /\ outputs[1].from = 1
             /\ outputs[1].kind = "batch"
                => \A k \in 1..Len(table_schema) :
                     LET cell == outputs[1].batch.columns[k].cells[1]
                         text == file[1].fields[k]
                     IN  IF table_schema[k].data_type = "Utf8"
                         THEN cell = [null |-> FALSE, v |-> text]
                         ELSE cell.null
                              <=> ~TypeParse(table_schema[k].data_type,
                                             text).ok

\* a single headerless row holding a number is inferred Utf8 and read back
C19_Witness ==
    /\ HeaderlessInferred
    /\ file = <<[utf8 |-> TRUE, fields |-> <<<<"3">>>>]>>
    /\ inferred.schema[1].data_type = "Utf8"
    /\ Len(outputs) = 1
    /\ outputs[1].kind = "batch"
    /\ outputs[1].batch.num_rows = 1
    /\ outputs[1].batch.columns[1].cells[1] = [null |-> FALSE, v |-> <<"3">>]

(***************************************************************************)
(* Vocabulary of the failed pulls.                                         *)
(***************************************************************************)
\* the positions in the file of the data records pull i went over
PulledData(i) == {p \in outputs[i].from..(outputs[i].to - 1) : p >= DataStart}

(***************************************************************************)
(* C20 -- A pull that fails with a parse error is not atomic: the          *)
(* well-formed records it accumulated before the malformed one are emitted *)
(* neither by that pull nor by a later one, the cursor stays past them and *)
(* past the malformed record, and the error leaves the finished flag       *)
(* unset.                                                                  *)
(***************************************************************************)
C20_FailedPullNotAtomic ==
    \A i \in 1..Len(outputs) :
        outputs[i].kind = "err"
        => /\ outputs[i].batch = <<>>
           /\ ~outputs[i].fin
           /\ outputs[i].to > outputs[i].from
           /\ Malformed(outputs[i].to - 1)
           /\ \A p \in PulledData(i) : p # outputs[i].to - 1 => ~Malformed(p)
           /\ outputs[i].nbuf = Cardinality(PulledData(i)) - 1
           /\ \A j \in (i + 1)..Len(outputs) :
                /\ outputs[j].from >= outputs[i].to
                /\ outputs[j].kind = "batch"
                   => outputs[j].batch.num_rows
                        = Cardinality(PulledData(j))
           /\ i = Len(outputs) => reader.pos = outputs[i].to

\* a record is accumulated, the next one fails, and the pull after that
\* yields the record behind the malformed one only
C20_Witness ==
    /\ Len(outputs) = 2
    /\ ~has_header
    /\ Len(file) = 3
    /\ outputs[1].kind = "err"
    /\ outputs[1].nbuf = 1
    /\ outputs[1].from = 1
    /\ outputs[1].to = 3
    /\ outputs[2].kind = "batch"
    /\ outputs[2].from = 3
    /\ outputs[2].batch.num_rows = 1

(***************************************************************************)
(* Vocabulary of the row properties.                                       *)
(***************************************************************************)
\* the outputs that are batches, in pull order
IsBatch(o) == o.kind = "batch"
Batches == SelectSeq(outputs, IsBatch)

\* position in the file of the first row of the i-th batch, if the batches
\* hold the data records in order
BatchStart(i) == DataStart + SumRows(SubSeq(Batches, 1, i - 1))

\* the cell the record at position p gives in a column of field fld read
\* from field index idx (counted from 0)
ExpectedCell(p, fld, idx) ==
    IF idx >= Len(file[p].fields) THEN [null |-> TRUE, v |-> <<>>]
    ELSE IF fld.data_type = "Utf8"
    THEN [null |-> FALSE, v |-> file[p].fields[idx + 1]]
    ELSE IF TypeParse(fld.data_type, file[p].fields[idx + 1]).ok
    THEN [null |-> FALSE,
          v |-> TypeParse(fld.data_type, file[p].fields[idx + 1]).v]
    ELSE [null |-> TRUE, v |-> <<>>]

\* the rows of the i-th batch are the records from position BatchStart(i)
BatchHoldsRecords(i) ==
    /\ BatchStart(i) + Batches[i].batch.num_rows - 1 <= Len(file)
    /\ \A k \in 1..Len(Batches[i].batch.columns) :
         \A r \in 1..Batches[i].batch.num_rows :
           Batches[i].batch.columns[k].cells[r]
             = ExpectedCell(BatchStart(i) + r - 1,
                            table_schema[ColumnIndices(projection,
                                                       table_schema)[k] + 1],
                            ColumnIndices(projection, table_schema)[k])

\* some pull has signalled end-of-stream
StreamEnded == \E i \in 1..Len(outputs) : outputs[i].kind = "eos"

(***************************************************************************)
(* C21 -- For an input with no malformed record and a batch size B >= 1,   *)
(* the rows of the emitted batches, concatenated in pull order, are the    *)
(* data rows of the input in input order, each exactly once; with a        *)
(* declared header the header row is never a data row, without one the     *)
(* first row is.                                                           *)
(***************************************************************************)
C21_RowsInOrderOnce ==
    (pc = "streaming" /\ NoMalformedData /\ batch_size >= 1)
    => /\ \A i \in 1..Len(Batches) : BatchHoldsRecords(i)
       /\ \A i \in 1..Len(outputs) : outputs[i].kind # "err"
       /\ StreamEnded => SumRows(outputs) = NumDataRows

\* three rows without a header, read as a batch of two and a batch of one
C21_Witness ==
    /\ pc = "streaming"
    /\ NoMalformedData
    /\ ~has_header
    /\ batch_size = 2
    /\ Len(file) = 3
    /\ file[1] # file[2]
    /\ projection = None
    /\ Len(outputs) = 3
    /\ outputs[1].kind = "batch"
    /\ outputs[2].kind = "batch"
    /\ outputs[3].kind = "eos"
    /\ BatchStart(1) = 1
    /\ BatchStart(2) = 3
    /\ BatchHoldsRecords(2)

(***************************************************************************)
(* C22 -- A batch size of 0 is accepted: every pull then signals           *)
(* end-of-stream without consuming a record and without setting the        *)
(* finished flag, so an input with data rows yields no batch and no error. *)
(***************************************************************************)
C22_ZeroBatchSize ==
    (batch_size = 0 /\ pc = "streaming")
    => /\ reader = NewCsvReader
       /\ ~finished
       /\ record_buffer = <<>>
       /\ \A i \in 1..Len(outputs) :
            /\ outputs[i].kind = "eos"
            /\ outputs[i].from = 1
            /\ outputs[i].to = 1
            /\ outputs[i].nbuf = 0
            /\ ~outputs[i].fin

\* two pulls on a file with data rows, both end-of-stream
C22_Witness ==
    /\ batch_size = 0
    /\ pc = "streaming"
    /\ NumDataRows >= 2
    /\ NoMalformedData
    /\ Len(outputs) = 2
    /\ outputs[1].kind = "eos"
    /\ outputs[2].kind = "eos"
    /\ ~finished
    /\ reader.pos = 1

(***************************************************************************)
(* Vocabulary of the whitespace properties.                                *)
(***************************************************************************)
\* the text starts or ends with a whitespace character
IsPadded(v) ==
    /\ v # <<>>
    /\ (v[1] \in {" ", "\t", "\n", "\r"}
        \/ v[Len(v)] \in {" ", "\t", "\n", "\r"})

\* the file with the cells of every record after the first one trimmed
DataTrimmed ==
    [p \in 1..Len(file) |->
        IF p = 1 THEN file[p]
        ELSE [utf8 |-> file[p].utf8,
              fields |-> [k \in 1..Len(file[p].fields) |->
                            trim(file[p].fields[k])]]]

(***************************************************************************)
(* C23 -- Inference classifies a cell after trimming the whitespace around *)
(* it, batch conversion parses the cell as it stands: a cell with leading  *)
(* or trailing whitespace around an integer, float or boolean literal is   *)
(* evidence for that type at inference (the schema is the one inferred     *)
(* from the trimmed cells) and converts to null in a column declared       *)
(* Int64, Float64 or Boolean.                                              *)
(***************************************************************************)
C23_TrimAtInferenceOnly ==
    /\ (pc = "inferred" /\ inferred.status = "ok")
       => inferred = infer_schema(DataTrimmed, has_header, infer_max_rec)
    /\ LastIsBatch
       => \A k \in 1..Len(table_schema) :
            table_schema[k].data_type \in {"Int64", "Float64", "Boolean"}
            => \A r \in 1..Len(record_buffer) :
                 IsPadded(record_buffer[r][k])
                 => LastOut.batch.columns[k].cells[r].null

\* a header and two padded integers: inferred Int64, read back as nulls
C23_Witness ==
    /\ LastIsBatch
    /\ has_header
    /\ Len(file) = 3
    /\ file[2].fields = <<<<" ", "3">>>>
    /\ file[3].fields = <<<<" ", "3">>>>
    /\ table_schema[1].data_type = "Int64"
    /\ Len(record_buffer) = 2
    /\ IsPadded(record_buffer[1][1])
    /\ LastOut.batch.columns[1].cells[1].null
    /\ LastOut.batch.columns[1].cells[2].null

====
